---- MODULE Spec2Model ----
(***************************************************************************)
(* Model of the whats-new summary notifier: the RSS crawler                *)
(* (lambda/rss-crawler/index.py) that records feed entries in a DynamoDB   *)
(* table with a conditional put, and the notifier                          *)
(* (lambda/notify-to-app/index.py) that is driven by the table's change    *)
(* stream, summarizes each new entry and fans it out to the configured     *)
(* destinations.                                                           *)
(*                                                                         *)
(* Text is modelled as a sequence of one-character strings.  The symbols   *)
(* "LF", "CR", "MARU" and "BQ" stand for the characters \n, \r, the        *)
(* Japanese full stop and the backquote.  Times are whole hours.           *)
(***************************************************************************)
EXTENDS Integers, Sequences, FiniteSets, TLC

VARIABLES
    table,      \* the DynamoDB table: a set of rows (records keyed by url)
    stream,     \* change records of the table not yet handed to the notifier
    ppc,        \* crawler invocation p: position in handler
    pfeed,      \* crawler invocation p: index of the feed being processed
    pentry,     \* crawler invocation p: index of the entry being processed
    rss_result, \* crawler invocation p: the parsed feed being processed
    putLog,     \* crawler invocation p: outcome of each write_to_table call
    dpc,        \* notifier invocation: position in handler / push_notification
    records,    \* notifier invocation: event["Records"]
    item_list,  \* notifier invocation: new_data, the list push_notification gets
    di,         \* notifier invocation: index of the current item
    item,       \* notifier invocation: the current item dict (mutable)
    content,    \* notifier invocation: result of get_blog_content, until it is used
    dj,         \* notifier invocation: index of the current destination
    destinations, \* NOTIFIERS[...]["destinations"], read from the environment
    log,        \* history: the external calls the notifier has made, in order
    fin,        \* a function of the source and the argument it is called with
    fout        \* <<>> before the call, <<value returned>> after it

pvars == <<ppc, pfeed, pentry, rss_result, putLog>>
dvars == <<dpc, records, item_list, di, item, content, dj, log>>
fvars == <<fin, fout>>
vars == <<table, stream, pvars, dvars, destinations, fvars>>

-----------------------------------------------------------------------------
(* Text helpers (Python str methods used by the source)                    *)

LF == "LF"
CR == "CR"
MARU == "MARU"
BQ == "BQ"
Whitespace == {" ", LF, CR}

\* str.startswith
StartsWith(s, p) == Len(s) >= Len(p) /\ SubSeq(s, 1, Len(p)) = p

\* str.split(sep) for a one-character separator: empty pieces are kept
RECURSIVE SplitFrom(_, _, _)
SplitFrom(s, sep, cur) ==
    IF s = <<>> THEN <<cur>>
    ELSE IF Head(s) = sep THEN <<cur>> \o SplitFrom(Tail(s), sep, <<>>)
    ELSE SplitFrom(Tail(s), sep, Append(cur, Head(s)))

Split(s, sep) == SplitFrom(s, sep, <<>>)

\* str.lstrip(chars): drops every leading character that is in chars
RECURSIVE LStrip(_, _)
LStrip(s, chars) ==
    IF s # <<>> /\ Head(s) \in chars THEN LStrip(Tail(s), chars) ELSE s

\* str.rstrip(chars)
RECURSIVE RStrip(_, _)
RStrip(s, chars) ==
    IF s # <<>> /\ s[Len(s)] \in chars THEN RStrip(SubSeq(s, 1, Len(s) - 1), chars) ELSE s

\* str.strip()
Strip(s) == RStrip(LStrip(s, Whitespace), Whitespace)

\* str.replace(old, new) for a two-character old and new
RECURSIVE Replace2(_, _, _)
Replace2(s, old, new) ==
    IF Len(s) < 2 THEN s
    ELSE IF SubSeq(s, 1, 2) = old THEN new \o Replace2(SubSeq(s, 3, Len(s)), old, new)
    ELSE <<Head(s)>> \o Replace2(Tail(s), old, new)

\* " | ".join(list)
RECURSIVE Join(_, _)
Join(list, sep) ==
    IF list = <<>> THEN <<>>
    ELSE IF Len(list) = 1 THEN list[1]
    ELSE list[1] \o sep \o Join(Tail(list), sep)

-----------------------------------------------------------------------------
(* The table and its change stream                                         *)

HasRow(tbl, url) == \E r \in tbl : r.url = url
RowsOf(tbl, url) == {r \in tbl : r.url = url}

\* put_item without a condition: the row of that key is replaced
PutItem(tbl, it) == {r \in tbl : r.url # it.url} \cup {it}

\* The change record DynamoDB Streams emits for a committed put
ChangeRecord(tbl, it) ==
    [eventName |-> IF HasRow(tbl, it.url) THEN "MODIFY" ELSE "INSERT",
     NewImage |-> it]

-----------------------------------------------------------------------------
(* lambda/rss-crawler/index.py                                             *)

Pollers == {"p1", "p2"}

\* datetime.datetime.now() as read by each crawler invocation
InvocationNow == [p \in Pollers |-> IF p = "p1" THEN 240 ELSE 241]

HoursPerDay == 24
JstOffsetHours == 9
MaxOldDaysDefault == 7

GeneralProducts ==
    <<"g","e","n","e","r","a","l",":","p","r","o","d","u","c","t","s","/">>
MarketingMarchitecture ==
    <<"m","a","r","k","e","t","i","n","g",":","m","a","r","c","h","i","t","e","c","t","u","r","e","/">>

\* The event of the crawler: {notifier name, notifier configuration}
NotifierName == "n1"
Notifier == [rssUrl |-> <<"f2", "f1">>, summarizerName |-> "s1"]

\* What feedparser.parse can return for each feed.  f1 is a fresh feed with
\* three entries (one a day old, one exactly seven days old, one eight days
\* old); f2 is a feed that was not updated for weeks, or a result without
\* the feed's "updated" field (a failed fetch).
Entry1 == [title |-> "t1", link |-> "u1", published |-> [t |-> 200, tz |-> 0],
           category |-> GeneralProducts \o <<"r","d","s">> \o <<",", " ">>
                        \o MarketingMarchitecture \o <<"d","b">>
                        \o <<",">> \o <<"x",":","y","/","z">>]
Entry2 == [title |-> "t2", link |-> "u2", published |-> [t |-> 72, tz |-> 9]]
Entry3 == [title |-> "t3", link |-> "u3", published |-> [t |-> 48, tz |-> 0]]
Entry4 == [title |-> "t4", link |-> "u4", published |-> [t |-> 230, tz |-> 0]]

FeedResults(rss_name) ==
    IF rss_name = "f1"
    THEN {[feed |-> [updated |-> [t |-> 236, tz |-> 0]],
           entries |-> <<Entry1, Entry2, Entry3>>]}
    ELSE {[feed |-> [updated |-> [t |-> 24, tz |-> 0]], entries |-> <<Entry4>>],
          [feed |-> [title |-> "none"], entries |-> <<>>]}

Urls == {"u1", "u2", "u3", "u4"}

\* dateutil.parser.parse(time_str, ignoretz=True): the zone offset is dropped
str2datetime(time_str) == time_str.t

\* datetime.isoformat() of a naive datetime
isoformat(dt) == <<"iso", dt>>

\* now.strftime(...) of the current time in the +9h zone
formatted_now(now) == <<"jst", now + JstOffsetHours>>

\* A recency test that already drops an entry on its last eligible day
recently_published_strict(now, pubdate, max_old_days) ==
    LET elapsed_days == (now - str2datetime(pubdate)) \div HoursPerDay
    IN  IF elapsed_days >= max_old_days THEN FALSE ELSE TRUE

\* recently_published, lines 20-31
recently_published(now, pubdate, max_old_days) ==
    LET elapsed_days == (now - str2datetime(pubdate)) \div HoursPerDay
    IN  IF elapsed_days > max_old_days THEN FALSE ELSE TRUE

\* add_blog, lines 99-114: the two tag lists of an entry
RECURSIVE category_tags(_, _)
category_tags(categories, acc) ==
    IF categories = <<>> THEN acc
    ELSE LET category == Strip(Head(categories))
             next == IF StartsWith(category, GeneralProducts)
                     THEN [acc EXCEPT !.service_categories =
                               Append(@, Split(category, "/")[2])]
                     ELSE IF StartsWith(category, MarketingMarchitecture)
                     THEN [acc EXCEPT !.marketing_architectures =
                               Append(@, Split(category, "/")[2])]
                     ELSE acc
         IN  category_tags(Tail(categories), next)

entry_tags(entry) ==
    LET raw == IF "category" \in DOMAIN entry THEN entry.category ELSE <<>>
        categories == IF raw # <<>> THEN Split(raw, ",") ELSE <<>>
    IN  category_tags(categories,
                      [service_categories |-> <<>>, marketing_architectures |-> <<>>])

\* write_to_table, lines 59-74: the row the crawler puts
crawler_item(link, title, category, pubtime, notifier_name, service_categories, marketing_architectures, now) ==
    LET base == [url |-> link, notifier_name |-> notifier_name, title |-> title,
                 category |-> category, pubtime |-> pubtime,
                 created_at_jst |-> formatted_now(now)]
        with_sc == IF service_categories # <<>>
                   THEN ("service_categories" :> service_categories) @@ base
                   ELSE base
    IN  IF marketing_architectures # <<>>
        THEN ("marketing_architectures" :> marketing_architectures) @@ with_sc
        ELSE with_sc

\* A put whose condition is lost: every put goes through
crawler_condition_always(tbl, url) == TRUE

\* ConditionExpression="attribute_not_exists(url)"
crawler_condition(tbl, url) == ~HasRow(tbl, url)

\* Faults the table can answer a put with, besides the failed condition
StoreFaults == {"none", "ClientError"}

\* write_to_table: the conditional put and the handling of its errors
crawler_write_to_table(p, it, fault) ==
    LET outcome == IF fault # "none" THEN "StoreError"
                   ELSE IF crawler_condition(table, it.url) THEN "Inserted"
                   ELSE "AlreadyExists"
    IN  /\ IF outcome = "Inserted"
           THEN /\ table' = PutItem(table, it)
                /\ stream' = Append(stream, ChangeRecord(table, it))
           ELSE UNCHANGED <<table, stream>>
        /\ putLog' = [putLog EXCEPT ![p] =
                         Append(@, [url |-> it.url, outcome |-> outcome, item |-> it])]

\* handler, line 133: int(notifier.get("maxOldDays", 7))
handler_max_old_days ==
    IF "maxOldDays" \in DOMAIN Notifier THEN Notifier.maxOldDays ELSE MaxOldDaysDefault

\* A handler without the gate on the feed's update time
PollFetch_ungated(p) ==
    /\ ppc[p] = "fetch"
    /\ IF pfeed[p] > Len(Notifier.rssUrl)
       THEN /\ ppc' = [ppc EXCEPT ![p] = "done"]
            /\ UNCHANGED <<pfeed, pentry, rss_result>>
       ELSE \E res \in FeedResults(Notifier.rssUrl[pfeed[p]]) :
              IF "updated" \notin DOMAIN res.feed
              THEN /\ ppc' = [ppc EXCEPT ![p] = "raised"]
                   /\ UNCHANGED <<pfeed, pentry, rss_result>>
              ELSE IF res.entries = <<>>
              THEN /\ pfeed' = [pfeed EXCEPT ![p] = @ + 1]
                   /\ UNCHANGED <<ppc, pentry, rss_result>>
              ELSE /\ ppc' = [ppc EXCEPT ![p] = "entries"]
                   /\ pentry' = [pentry EXCEPT ![p] = 1]
                   /\ rss_result' = [rss_result EXCEPT ![p] = res]
                   /\ UNCHANGED pfeed
    /\ UNCHANGED <<table, stream, putLog, dvars, destinations, fvars>>

\* handler, lines 134-142: the next feed is parsed and gated on its update time
PollFetch(p) ==
    /\ ppc[p] = "fetch"
    /\ IF pfeed[p] > Len(Notifier.rssUrl)
       THEN /\ ppc' = [ppc EXCEPT ![p] = "done"]
            /\ UNCHANGED <<pfeed, pentry, rss_result>>
       ELSE \E res \in FeedResults(Notifier.rssUrl[pfeed[p]]) :
              IF "updated" \notin DOMAIN res.feed
              THEN /\ ppc' = [ppc EXCEPT ![p] = "raised"]
                   /\ UNCHANGED <<pfeed, pentry, rss_result>>
              ELSE IF ~recently_published(InvocationNow[p], res.feed.updated, handler_max_old_days)
                      \/ res.entries = <<>>
              THEN /\ pfeed' = [pfeed EXCEPT ![p] = @ + 1]
                   /\ UNCHANGED <<ppc, pentry, rss_result>>
              ELSE /\ ppc' = [ppc EXCEPT ![p] = "entries"]
                   /\ pentry' = [pentry EXCEPT ![p] = 1]
                   /\ rss_result' = [rss_result EXCEPT ![p] = res]
                   /\ UNCHANGED pfeed
    /\ UNCHANGED <<table, stream, putLog, dvars, destinations, fvars>>

\* add_blog, lines 97-126: one entry of the current feed
PollEntry(p) ==
    /\ ppc[p] = "entries"
    /\ LET rss_name == Notifier.rssUrl[pfeed[p]]
           entry == rss_result[p].entries[pentry[p]]
           tags == entry_tags(entry)
           it == crawler_item(entry.link, entry.title, rss_name,
                              isoformat(str2datetime(entry.published)), NotifierName,
                              tags.service_categories, tags.marketing_architectures,
                              InvocationNow[p])
       IN  /\ IF recently_published(InvocationNow[p], entry.published, handler_max_old_days)
              THEN \E fault \in StoreFaults : crawler_write_to_table(p, it, fault)
              ELSE UNCHANGED <<table, stream, putLog>>
           /\ IF pentry[p] < Len(rss_result[p].entries)
              THEN /\ pentry' = [pentry EXCEPT ![p] = @ + 1]
                   /\ UNCHANGED <<ppc, pfeed>>
              ELSE /\ ppc' = [ppc EXCEPT ![p] = "fetch"]
                   /\ pfeed' = [pfeed EXCEPT ![p] = @ + 1]
                   /\ UNCHANGED pentry
    /\ UNCHANGED <<rss_result, dvars, destinations, fvars>>

-----------------------------------------------------------------------------
(* lambda/notify-to-app/index.py                                           *)

DispatchNow == [now |-> 250]

Teams == [type |-> "teams", distinationType |-> "URL", parameterName |-> "hook1"]
SlackFree == [type |-> "slackfree", distinationType |-> "URL", parameterName |-> "hook2"]
Slack == [type |-> "slack", distinationType |-> "SNS", parameterName |-> "topic1"]

\* The destination lists NOTIFIERS can configure for the notifier
DestinationLists == {<<Teams, SlackFree, Slack>>, <<SlackFree, Teams>>, <<>>}

\* What the summarizer can answer: a text (a sequence of tagged blocks) with
\* both blocks, without the summary, without the bullets, or a client error
Detail1 == <<"-", " ", "a", MARU, LF, "-", " ", "b", LF>>
SummarizerOutcomes ==
    {[kind |-> "response", text |-> <<[tag |-> "thinking", body |-> Detail1],
                                      [tag |-> "summary", body |-> "S1"]>>],
     [kind |-> "response", text |-> <<[tag |-> "thinking", body |-> Detail1]>>],
     [kind |-> "response", text |-> <<[tag |-> "summary", body |-> "S1"]>>],
     [kind |-> "AccessDeniedException"],
     [kind |-> "ThrottlingException"]}

\* What the fetch of the item's URL can run into
FetchOutcomes == {"text", "no_main", "URLError", "not_http"}

\* What a delivery call (urlopen or sns publish) can end as
DeliveryOutcomes == {"ok", "error"}

\* re.findall(r"<tag>([\s\S]*?)</tag>", outputText): the bodies of the blocks
RECURSIVE findall(_, _)
findall(tag, text) ==
    IF text = <<>> THEN <<>>
    ELSE (IF Head(text).tag = tag THEN <<Head(text).body>> ELSE <<>>)
         \o findall(tag, Tail(text))

\* get_blog_content: the text of <main>, None, or an exception that escapes
get_blog_content(outcome) ==
    CASE outcome = "text"     -> [raised |-> FALSE, value |-> "body"]
      [] outcome = "no_main"  -> [raised |-> FALSE, value |-> "None"]
      [] outcome = "URLError" -> [raised |-> FALSE, value |-> "None"]
      [] outcome = "not_http" -> [raised |-> TRUE, value |-> "UnboundLocalError"]

\* A summarizer wrapper that answers with empty texts instead of failing
summarize_blog_lenient(outcome) ==
    IF outcome.kind = "response"
    THEN LET summaries == findall("summary", outcome.text)
             details == findall("thinking", outcome.text)
         IN  [raised |-> FALSE,
              summary |-> IF summaries = <<>> THEN "" ELSE summaries[1],
              detail |-> IF details = <<>> THEN <<>> ELSE details[1]]
    ELSE IF outcome.kind = "AccessDeniedException"
    THEN [raised |-> FALSE, summary |-> "", detail |-> <<>>]
    ELSE [raised |-> TRUE, error |-> outcome.kind]

\* summarize_blog, lines 217-237
summarize_blog(outcome) ==
    IF outcome.kind = "response"
    THEN LET summaries == findall("summary", outcome.text)
             details == findall("thinking", outcome.text)
         IN  IF summaries = <<>> \/ details = <<>>
             THEN [raised |-> TRUE, error |-> "IndexError"]
             ELSE [raised |-> FALSE, summary |-> summaries[1], detail |-> details[1]]
    ELSE IF outcome.kind = "AccessDeniedException"
    THEN [raised |-> TRUE, error |-> "UnboundLocalError"]
    ELSE [raised |-> TRUE, error |-> outcome.kind]

\* A filter that only skips REMOVE records
RECURSIVE get_new_entries_not_remove(_)
get_new_entries_not_remove(blog_entries) ==
    IF blog_entries = <<>> THEN <<>>
    ELSE LET entry == Head(blog_entries)
         IN  (IF entry.eventName # "REMOVE"
              THEN <<[rss_category |-> entry.NewImage.category,
                      rss_time |-> entry.NewImage.pubtime,
                      rss_title |-> entry.NewImage.title,
                      rss_link |-> entry.NewImage.url,
                      rss_notifier_name |-> entry.NewImage.notifier_name]>>
              ELSE <<>>)
             \o get_new_entries_not_remove(Tail(blog_entries))

\* get_new_entries, lines 368-390
RECURSIVE get_new_entries(_)
get_new_entries(blog_entries) ==
    IF blog_entries = <<>> THEN <<>>
    ELSE LET entry == Head(blog_entries)
         IN  (IF entry.eventName = "INSERT"
              THEN <<[rss_category |-> entry.NewImage.category,
                      rss_time |-> entry.NewImage.pubtime,
                      rss_title |-> entry.NewImage.title,
                      rss_link |-> entry.NewImage.url,
                      rss_notifier_name |-> entry.NewImage.notifier_name]>>
              ELSE <<>>)
             \o get_new_entries(Tail(blog_entries))

\* item.get("service_categories", [])
item_service_categories(it) ==
    IF "service_categories" \in DOMAIN it THEN it.service_categories ELSE <<>>

\* lines 398-400 and 502-504: the badge text
service_badges(service_categories) ==
    IF service_categories # <<>>
    THEN <<BQ, BQ, BQ, LF>> \o Join(service_categories, <<" ", "|", " ">>)
         \o <<LF, BQ, BQ, BQ>>
    ELSE <<>>

\* create_free_slack_message, lines 412-425: the entries of the bulleted list
RECURSIVE slack_elements(_)
slack_elements(details) ==
    IF details = <<>> THEN <<>>
    ELSE (IF Head(details) # <<>>
          THEN <<LStrip(Head(details), {"-", " "})>>
          ELSE <<>>)
         \o slack_elements(Tail(details))

create_free_slack_message(it) ==
    LET details == Split(it.detail, LF)
        badges == service_badges(item_service_categories(it))
    IN  [blocks |->
           <<[type |-> "header", text |-> it.rss_title],
             [type |-> "section", fields |-> <<it.rss_category, it.rss_time>>]>>
           \o (IF badges # <<>> THEN <<[type |-> "section", text |-> badges]>> ELSE <<>>)
           \o <<[type |-> "section", text |-> it.summary],
                [type |-> "rich_text", elements |-> slack_elements(details)],
                [type |-> "section", url |-> it.rss_link]>>]

create_teams_message(it) ==
    LET badges == service_badges(item_service_categories(it))
    IN  [type |-> "message",
         collapsedItems |->
            <<it.rss_title, <<it.rss_category, it.rss_time>>>>
            \o (IF badges # <<>> THEN <<badges>> ELSE <<>>)
            \o <<it.summary>>,
         expandedItems |-> <<it.detail>>,
         url |-> it.rss_link]

\* A summary row written under a key of its own, with the fields of an entry
notify_item_own_key(link, title, notifier_name, summary, detail, now) ==
    [url |-> "audit", notifier_name |-> notifier_name, title |-> title,
     category |-> "f1", pubtime |-> isoformat(0),
     summary |-> summary, detail |-> detail, created_at_jst |-> formatted_now(now)]

\* write_to_table, lines 256-263: the row the notifier puts
notify_item(link, title, notifier_name, summary, detail, now) ==
    [url |-> link, notifier_name |-> notifier_name, title |-> title,
     summary |-> summary, detail |-> detail, created_at_jst |-> formatted_now(now)]

\* A put of the summary without its condition
notify_condition_none(tbl, url) == TRUE

\* ConditionExpression="attribute_not_exists(#url)"
notify_condition(tbl, url) == ~HasRow(tbl, url)

\* A write of the summary that takes the row back when the table fails
notify_write_to_table_rollback(it, fault) ==
    LET outcome == IF fault # "none" THEN "StoreError"
                   ELSE IF notify_condition(table, it.url) THEN "Put"
                   ELSE "Duplicate"
    IN  /\ IF outcome = "Put"
           THEN /\ table' = PutItem(table, it)
                /\ stream' = Append(stream, ChangeRecord(table, it))
           ELSE IF outcome = "StoreError"
           THEN /\ table' = {r \in table : r.url # it.url}
                /\ UNCHANGED stream
           ELSE UNCHANGED <<table, stream>>
        /\ log' = Append(log, [op |-> "audit", url |-> it.url, summary |-> it.summary,
                               detail |-> it.detail, outcome |-> outcome])

\* write_to_table: the put of the summary and the handling of its errors
notify_write_to_table(it, fault) ==
    LET outcome == IF fault # "none" THEN "StoreError"
                   ELSE IF notify_condition(table, it.url) THEN "Put"
                   ELSE "Duplicate"
    IN  /\ IF outcome = "Put"
           THEN /\ table' = PutItem(table, it)
                /\ stream' = Append(stream, ChangeRecord(table, it))
           ELSE UNCHANGED <<table, stream>>
        /\ log' = Append(log, [op |-> "audit", url |-> it.url, summary |-> it.summary,
                               detail |-> it.detail, outcome |-> outcome])

NoItem == [rss_link |-> "none"]

Min(a, b) == IF a < b THEN a ELSE b

\* The fields get_new_entries reads from an INSERT record
ImageComplete(entry) ==
    {"category", "pubtime", "title", "url", "notifier_name"} \subseteq DOMAIN entry.NewImage

MaxBatch == 2

\* Update/remove records of rows that other writers keep in the same table;
\* the stream delivers them in the same batches as the crawler's inserts
Modify == [eventName |-> "MODIFY", Keys |-> [url |-> "ext"],
           NewImage |-> [url |-> "ext", notifier_name |-> "n1", title |-> "tx",
                         category |-> "fx", pubtime |-> <<"iso", 0>>]]
Remove == [eventName |-> "REMOVE", Keys |-> [url |-> "ext"]]
ForeignBatches == {<<>>, <<Remove>>, <<Modify, Remove>>}

\* handler, lines 629-634: a batch of change records arrives
DispatchStart ==
    /\ dpc = "idle"
    /\ \E k \in 0..Min(MaxBatch, Len(stream)), foreign \in ForeignBatches :
         \E pos \in 0..k :
         LET recs == SubSeq(stream, 1, pos) \o foreign \o SubSeq(stream, pos + 1, k)
             ok == \A i \in 1..Len(recs) :
                      recs[i].eventName = "INSERT" => ImageComplete(recs[i])
             new_data == IF ok THEN get_new_entries(recs) ELSE <<>>
         IN  /\ Len(recs) \in 1..MaxBatch
             /\ records' = recs
             /\ stream' = SubSeq(stream, k + 1, Len(stream))
             /\ item_list' = new_data
             /\ log' = IF ok THEN <<>> ELSE <<[op |-> "exception", url |-> "none"]>>
             /\ IF 0 < Len(new_data)
                THEN /\ dpc' = "fetch"
                     /\ di' = 1
                     /\ item' = new_data[1]
                ELSE /\ dpc' = "done"
                     /\ UNCHANGED <<di, item>>
    /\ UNCHANGED <<table, pvars, destinations, fvars, content, dj>>

\* push_notification, lines 301-304: the blog content is fetched
GetContent ==
    /\ dpc = "fetch"
    /\ \E outcome \in FetchOutcomes :
         LET r == get_blog_content(outcome)
             ev == [op |-> "fetch", url |-> item.rss_link, raised |-> r.raised]
         IN  IF r.raised
             THEN /\ dpc' = "done"
                  /\ log' = log \o <<ev, [op |-> "exception", url |-> item.rss_link]>>
                  /\ UNCHANGED content
             ELSE /\ dpc' = "summarize"
                  /\ content' = r.value
                  /\ log' = Append(log, ev)
    /\ UNCHANGED <<table, stream, pvars, records, item_list, di, item, dj,
                   destinations, fvars>>

\* An enrichment that is only made when there is a destination to send to
Summarize_for_destinations ==
    /\ dpc = "summarize"
    /\ IF destinations = <<>>
       THEN /\ dpc' = "done"
            /\ UNCHANGED <<item, dj, log>>
       ELSE \E outcome \in SummarizerOutcomes :
              LET r == summarize_blog(outcome)
                  ev == [op |-> "summarize", url |-> item.rss_link, answer |-> outcome,
                         result |-> r]
              IN  IF r.raised
                  THEN /\ dpc' = "done"
                       /\ log' = log \o <<ev, [op |-> "exception", url |-> item.rss_link]>>
                       /\ UNCHANGED <<item, dj>>
                  ELSE /\ item' = ("summary" :> r.summary) @@ ("detail" :> r.detail) @@ item
                       /\ log' = Append(log, ev)
                       /\ dpc' = "deliver" /\ dj' = 1
    /\ content' = "None"
    /\ UNCHANGED <<table, stream, pvars, records, item_list, di, destinations, fvars>>

\* push_notification, lines 306-312: the blog is summarized
Summarize ==
    /\ dpc = "summarize"
    /\ \E outcome \in SummarizerOutcomes :
         LET r == summarize_blog(outcome)
             ev == [op |-> "summarize", url |-> item.rss_link, answer |-> outcome,
                    result |-> r]
         IN  IF r.raised
             THEN /\ dpc' = "done"
                  /\ log' = log \o <<ev, [op |-> "exception", url |-> item.rss_link]>>
                  /\ UNCHANGED <<item, dj>>
             ELSE /\ item' = ("summary" :> r.summary) @@ ("detail" :> r.detail) @@ item
                  /\ log' = Append(log, ev)
                  /\ IF destinations = <<>>
                     THEN dpc' = "audit" /\ dj' = 0
                     ELSE dpc' = "deliver" /\ dj' = 1
    /\ content' = "None"
    /\ UNCHANGED <<table, stream, pvars, records, item_list, di, destinations, fvars>>

\* push_notification, lines 320-321: what the loop body does to the item
push_item(it, type) ==
    IF type = "teams"
    THEN [it EXCEPT !.detail = Replace2(@, <<MARU, LF>>, <<MARU, CR>>)]
    ELSE it

\* push_notification, lines 320-326: the message of a destination
push_msg(it, type) ==
    IF type = "teams" THEN create_teams_message(push_item(it, type))
    ELSE IF type = "slackfree" THEN create_free_slack_message(it)
    ELSE it

\* A destination loop that goes on after a failed delivery
Deliver_continue ==
    /\ dpc = "deliver"
    /\ LET destination == destinations[dj]
           type == destination.type
           msg == push_msg(item, type)
       IN  /\ item' = push_item(item, type)
           /\ \E outcome \in DeliveryOutcomes :
                LET ev == [op |-> "deliver", url |-> item.rss_link, idx |-> dj,
                           type |-> type, msg |-> msg, outcome |-> outcome]
                IN  /\ dpc' = "sleep"
                    /\ log' = IF outcome = "ok" THEN Append(log, ev)
                              ELSE log \o <<ev, [op |-> "exception", url |-> item.rss_link]>>
    /\ UNCHANGED <<table, stream, pvars, records, item_list, di, content, dj,
                   destinations, fvars>>

\* push_notification, lines 314-343: one destination gets its message
Deliver ==
    /\ dpc = "deliver"
    /\ LET destination == destinations[dj]
           type == destination.type
           msg == push_msg(item, type)
           sent == destination.distinationType \in {"URL", "SNS"}
       IN  /\ item' = push_item(item, type)
           /\ \E outcome \in DeliveryOutcomes :
                LET ev == [op |-> "deliver", url |-> item.rss_link, idx |-> dj,
                           type |-> type, msg |-> msg, outcome |-> outcome]
                IN  IF ~sent
                    THEN dpc' = "sleep" /\ UNCHANGED log
                    ELSE IF outcome = "ok"
                    THEN dpc' = "sleep" /\ log' = Append(log, ev)
                    ELSE /\ dpc' = "done"
                         /\ log' = log \o <<ev, [op |-> "exception", url |-> item.rss_link]>>
    /\ UNCHANGED <<table, stream, pvars, records, item_list, di, content, dj,
                   destinations, fvars>>

\* A loop that leaves out every other destination
Sleep_skipping ==
    /\ dpc = "sleep"
    /\ log' = Append(log, [op |-> "sleep", url |-> item.rss_link, idx |-> dj])
    /\ IF dj + 1 < Len(destinations)
       THEN dpc' = "deliver" /\ dj' = dj + 2
       ELSE dpc' = "audit" /\ UNCHANGED dj
    /\ UNCHANGED <<table, stream, pvars, records, item_list, di, item, content,
                   destinations, fvars>>

\* push_notification, line 344: the pause after a delivery
Sleep ==
    /\ dpc = "sleep"
    /\ log' = Append(log, [op |-> "sleep", url |-> item.rss_link, idx |-> dj])
    /\ IF dj < Len(destinations)
       THEN dpc' = "deliver" /\ dj' = dj + 1
       ELSE dpc' = "audit" /\ UNCHANGED dj
    /\ UNCHANGED <<table, stream, pvars, records, item_list, di, item, content,
                   destinations, fvars>>

\* push_notification, lines 346-347: the summary is written to the table
Audit ==
    /\ dpc = "audit"
    /\ \E fault \in StoreFaults :
         notify_write_to_table(
             notify_item(item.rss_link, item.rss_title, item.rss_notifier_name,
                         item.summary, item.detail, DispatchNow.now),
             fault)
    /\ IF di < Len(item_list)
       THEN /\ dpc' = "fetch"
            /\ di' = di + 1
            /\ item' = item_list[di + 1]
       ELSE /\ dpc' = "done"
            /\ UNCHANGED <<di, item>>
    /\ UNCHANGED <<pvars, records, item_list, content, dj, destinations, fvars>>

\* handler returns: the invocation is over and its locals are gone
DispatchReturn ==
    /\ dpc = "done"
    /\ dpc' = "idle"
    /\ records' = <<>>
    /\ item_list' = <<>>
    /\ di' = 0
    /\ item' = NoItem
    /\ content' = "None"
    /\ dj' = 0
    /\ log' = <<>>
    /\ UNCHANGED <<table, stream, pvars, destinations, fvars>>

-----------------------------------------------------------------------------

NoResult == [feed |-> [title |-> "none"], entries |-> <<>>]
NoCall == [fn |-> "none"]

\* No invocation has run yet
Initial ==
    /\ table = {}
    /\ stream = <<>>
    /\ ppc = [p \in Pollers |-> "fetch"]
    /\ pfeed = [p \in Pollers |-> 1]
    /\ pentry = [p \in Pollers |-> 0]
    /\ rss_result = [p \in Pollers |-> NoResult]
    /\ putLog = [p \in Pollers |-> <<>>]
    /\ dpc = "idle"
    /\ records = <<>>
    /\ item_list = <<>>
    /\ di = 0
    /\ item = NoItem
    /\ content = "None"
    /\ dj = 0
    /\ log = <<>>

Init ==
    /\ Initial
    /\ destinations \in DestinationLists
    /\ fin = NoCall
    /\ fout = <<>>

Next ==
    \/ \E p \in Pollers : PollFetch(p)
    \/ \E p \in Pollers : PollEntry(p)
    \/ DispatchStart
    \/ GetContent
    \/ Summarize
    \/ Deliver
    \/ Sleep
    \/ Audit
    \/ DispatchReturn

Spec == Init /\ [][Next]_vars

-----------------------------------------------------------------------------
(* The functions of the source that compute a value from their argument,   *)
(* called on arguments drawn from bounded sets                             *)

MaxCats == 2
MaxLines == 2

SeqsUpTo(S, n) == UNION {[1..k -> S] : k \in 0..n}

\* Elements of the comma-separated category string of a feed entry
CategoryElements ==
    {GeneralProducts \o <<"a">>,
     GeneralProducts \o <<"a", "/", "b">>,
     MarketingMarchitecture \o <<"d">>,
     <<"x", ":", "y", "/", "z">>,
     <<" ">> \o GeneralProducts \o <<"c">>}

CategoryStrings == {Join(es, <<",">>) : es \in SeqsUpTo(CategoryElements, MaxCats)}

\* Lines of the bullet block the summarizer answers with
DetailLines ==
    {<<"-", " ", "a">>,
     <<"-", " ", "-", " ", "a">>,
     <<"-", "b">>,
     <<"b">>,
     <<>>}

RECURSIVE Lines(_)
Lines(ls) == IF ls = <<>> THEN <<>> ELSE Head(ls) \o <<LF>> \o Lines(Tail(ls))

DetailStrings == {Lines(ls) : ls \in SeqsUpTo(DetailLines, MaxLines)}

\* The calls: add_blog's tag parsing on an entry, the chat-blocks formatter
\* on an item
Calls ==
    {[fn |-> "add_blog",
      arg |-> [title |-> "t1", link |-> "u1", published |-> [t |-> 200, tz |-> 0],
               category |-> c]] : c \in CategoryStrings}
    \cup
    {[fn |-> "create_free_slack_message",
      arg |-> [rss_category |-> "f1", rss_time |-> isoformat(200), rss_title |-> "t1",
               rss_link |-> "u1", rss_notifier_name |-> NotifierName,
               summary |-> "S1", detail |-> d]] : d \in DetailStrings}

InitCalls ==
    /\ Initial
    /\ destinations = <<>>
    /\ fin \in Calls
    /\ fout = <<>>

\* add_blog, lines 99-114
CallAddBlog ==
    /\ fin.fn = "add_blog"
    /\ fout = <<>>
    /\ fout' = <<entry_tags(fin.arg)>>
    /\ UNCHANGED <<fin, table, stream, pvars, dvars, destinations>>

\* create_free_slack_message, lines 392-497
CallCreateFreeSlackMessage ==
    /\ fin.fn = "create_free_slack_message"
    /\ fout = <<>>
    /\ fout' = <<create_free_slack_message(fin.arg)>>
    /\ UNCHANGED <<fin, table, stream, pvars, dvars, destinations>>

NextCalls ==
    \/ CallAddBlog
    \/ CallCreateFreeSlackMessage

SpecCalls == InitCalls /\ [][NextCalls]_vars

-----------------------------------------------------------------------------
(* lambda/logs-to-sns/index.py and lambda/logs-to-sns-chatbot/index.py: the *)
(* two handlers that forward ERROR/FATAL log events to an SNS topic.  A     *)
(* message is a sequence of words; a JSON value carries its JSON type.      *)

MaxLogEvents == 2

\* 'ERROR' in message
Contains(message, word) == \E k \in DOMAIN message : message[k] = word

Messages == {<<"ERROR", "x">>, <<"FATAL">>, <<"FATAL", "ERROR">>, <<"x">>}

\* The elements payload["logEvents"] can have: an object with a message, an
\* object without one, a value that is not an object
LogEventValues ==
    {[json |-> "object", id |-> "e1", timestamp |-> 1, message |-> m] : m \in Messages}
    \cup {[json |-> "object", id |-> "e2", timestamp |-> 2], [json |-> "string"]}

\* The decoded payloads of a subscription filter
Payloads ==
    {[logGroup |-> "g", logStream |-> "s", logEvents |-> es] :
        es \in SeqsUpTo(LogEventValues, MaxLogEvents)}
    \cup {[logGroup |-> "g", logStream |-> "s"]}

\* The invocation: whether SNS_TOPIC_ARN is set, and the event, in which
\* awslogs.data is missing, cannot be decoded, or decodes to a payload
LogInvocations ==
    {[env |-> TRUE, event |-> [awslogs |-> [data |-> [valid |-> TRUE, payload |-> p]]]] :
        p \in Payloads}
    \cup {[env |-> TRUE, event |-> [awslogs |-> [data |-> [valid |-> FALSE]]]],
          [env |-> TRUE, event |-> [detail |-> "none"]],
          [env |-> FALSE, event |-> [detail |-> "none"]]}

\* What sns.publish can end as
PublishOutcomes == {"ok", "error"}

\* event.get('message', '')
event_message(event) == IF "message" \in DOMAIN event THEN event.message ELSE <<>>

\* The loop's state: the publish calls made, the publish errors logged, and
\* whether an exception left the loop
NoCalls == [published |-> <<>>, errors |-> <<>>, raised |-> FALSE]

\* logs-to-sns, line 78
sns_level(message) ==
    IF Contains(message, "ERROR") THEN "ERROR"
    ELSE IF Contains(message, "FATAL") THEN "FATAL" ELSE "INFO"

\* logs-to-sns, line 80
sns_severity(message) ==
    IF Contains(message, "ERROR") THEN "HIGH"
    ELSE IF Contains(message, "FATAL") THEN "CRITICAL" ELSE "MEDIUM"

\* logs-to-sns, lines 85-119: the arguments of sns.publish
sns_call(k, log_group, log_stream, event, outcome) ==
    LET message == event_message(event)
    IN  [idx |-> k, outcome |-> outcome,
         Subject |-> <<"$", sns_level(message), log_group>>,
         Message |-> message,
         MessageAttributes |->
            [level |-> sns_level(message), severity |-> sns_severity(message),
             logGroup |-> log_group, logStream |-> log_stream,
             eventSourceId |-> IF "id" \in DOMAIN event THEN event.id ELSE "Unknown ID",
             eventTime |-> IF "timestamp" \in DOMAIN event THEN event.timestamp ELSE 0]]

\* A publish whose failure is not caught where it happens
sns_publish_unguarded(acc, call) ==
    IF call.outcome = "ok"
    THEN [acc EXCEPT !.published = Append(@, call)]
    ELSE [acc EXCEPT !.published = Append(@, call), !.raised = TRUE]

\* logs-to-sns, lines 113-124: publish, a failure is logged
sns_publish(acc, call) ==
    IF call.outcome = "ok"
    THEN [acc EXCEPT !.published = Append(@, call)]
    ELSE [acc EXCEPT !.published = Append(@, call), !.errors = Append(@, call.idx)]

\* logs-to-sns, lines 65-124
RECURSIVE sns_loop(_, _, _, _)
sns_loop(payload, k, outcomes, acc) ==
    IF k > Len(payload.logEvents) \/ acc.raised THEN acc
    ELSE LET event == payload.logEvents[k]
         IN  IF event.json # "object" THEN [acc EXCEPT !.raised = TRUE]
             ELSE IF \/ Contains(event_message(event), "ERROR")
                     \/ Contains(event_message(event), "FATAL")
             THEN sns_loop(payload, k + 1, outcomes,
                           sns_publish(acc, sns_call(k, payload.logGroup, payload.logStream,
                                                     event, outcomes[k])))
             ELSE sns_loop(payload, k + 1, outcomes, acc)

\* logs-to-sns, handler
logs_to_sns_handler(inv, outcomes) ==
    IF ~inv.env THEN [statusCode |-> 500, calls |-> NoCalls]
    ELSE IF "awslogs" \notin DOMAIN inv.event THEN [statusCode |-> 400, calls |-> NoCalls]
    ELSE IF ~inv.event.awslogs.data.valid THEN [statusCode |-> 500, calls |-> NoCalls]
    ELSE LET payload == inv.event.awslogs.data.payload
         IN  IF "logEvents" \notin DOMAIN payload \/ payload.logEvents = <<>>
             THEN [statusCode |-> 200, calls |-> NoCalls]
             ELSE LET acc == sns_loop(payload, 1, outcomes, NoCalls)
                  IN  [statusCode |-> IF acc.raised THEN 500 ELSE 200, calls |-> acc]

\* A level that looks for FATAL first
chatbot_level_fatal_first(message) ==
    IF Contains(message, "FATAL") THEN "FATAL"
    ELSE IF Contains(message, "ERROR") THEN "ERROR" ELSE "INFO"

\* logs-to-sns-chatbot, line 70
chatbot_level(message) ==
    IF Contains(message, "ERROR") THEN "ERROR"
    ELSE IF Contains(message, "FATAL") THEN "FATAL" ELSE "INFO"

\* logs-to-sns-chatbot, line 95
chatbot_severity(level) == IF level = "ERROR" THEN "HIGH" ELSE "CRITICAL"

\* logs-to-sns-chatbot, lines 76-106: the arguments of sns.publish
chatbot_call(k, log_group, log_stream, event, outcome) ==
    LET message == event_message(event)
        level == chatbot_level(message)
        timestamp == IF "timestamp" \in DOMAIN event THEN event.timestamp ELSE 0
    IN  [idx |-> k, outcome |-> outcome,
         Subject |-> <<level, log_group>>,
         Message |->
            [version |-> "1.0", source |-> "custom", id |-> <<log_group, timestamp>>,
             content |-> [title |-> <<level, log_group>>, description |-> message,
                          nextSteps |-> <<log_group, log_stream>>,
                          keywords |-> <<level, "CloudWatch", "LogError">>],
             metadata |-> [threadId |-> log_group, summary |-> <<level, log_group>>,
                           eventType |-> "CloudWatchLogError",
                           additionalContext |-> [severity |-> chatbot_severity(level)]]]]

\* logs-to-sns-chatbot, lines 101-110: publish, a failure is logged
chatbot_publish(acc, call) ==
    IF call.outcome = "ok"
    THEN [acc EXCEPT !.published = Append(@, call)]
    ELSE [acc EXCEPT !.published = Append(@, call), !.errors = Append(@, call.idx)]

\* logs-to-sns-chatbot, lines 65-110
RECURSIVE chatbot_loop(_, _, _, _)
chatbot_loop(payload, k, outcomes, acc) ==
    IF k > Len(payload.logEvents) \/ acc.raised THEN acc
    ELSE LET event == payload.logEvents[k]
         IN  IF event.json # "object" THEN [acc EXCEPT !.raised = TRUE]
             ELSE IF \/ Contains(event_message(event), "ERROR")
                     \/ Contains(event_message(event), "FATAL")
             THEN chatbot_loop(payload, k + 1, outcomes,
                               chatbot_publish(acc, chatbot_call(k, payload.logGroup,
                                                                 payload.logStream, event,
                                                                 outcomes[k])))
             ELSE chatbot_loop(payload, k + 1, outcomes, acc)

\* logs-to-sns-chatbot, handler
logs_to_sns_chatbot_handler(inv, outcomes) ==
    IF ~inv.env THEN [statusCode |-> 500, calls |-> NoCalls]
    ELSE IF "awslogs" \notin DOMAIN inv.event THEN [statusCode |-> 400, calls |-> NoCalls]
    ELSE IF ~inv.event.awslogs.data.valid THEN [statusCode |-> 500, calls |-> NoCalls]
    ELSE LET payload == inv.event.awslogs.data.payload
         IN  IF "logEvents" \notin DOMAIN payload \/ payload.logEvents = <<>>
             THEN [statusCode |-> 200, calls |-> NoCalls]
             ELSE LET acc == chatbot_loop(payload, 1, outcomes, NoCalls)
                  IN  [statusCode |-> IF acc.raised THEN 500 ELSE 200, calls |-> acc]

\* Both handlers are subscribed to the same log group and get the same event
InitLogs ==
    /\ Initial
    /\ destinations = <<>>
    /\ fin \in {[fn |-> "handler", arg |-> inv] : inv \in LogInvocations}
    /\ fout = <<>>

Returned(name) == \E n \in DOMAIN fout : fout[n].handler = name

InvokeLogsToSns ==
    /\ ~Returned("logs-to-sns")
    /\ \E outcomes \in [1..MaxLogEvents -> PublishOutcomes] :
         fout' = Append(fout, [handler |-> "logs-to-sns",
                               result |-> logs_to_sns_handler(fin.arg, outcomes)])
    /\ UNCHANGED <<fin, table, stream, pvars, dvars, destinations>>

InvokeLogsToSnsChatbot ==
    /\ ~Returned("logs-to-sns-chatbot")
    /\ \E outcomes \in [1..MaxLogEvents -> PublishOutcomes] :
         fout' = Append(fout, [handler |-> "logs-to-sns-chatbot",
                               result |-> logs_to_sns_chatbot_handler(fin.arg, outcomes)])
    /\ UNCHANGED <<fin, table, stream, pvars, dvars, destinations>>

NextLogs ==
    \/ InvokeLogsToSns
    \/ InvokeLogsToSnsChatbot

SpecLogs == InitLogs /\ [][NextLogs]_vars

-----------------------------------------------------------------------------
(* Properties                                                              *)

\* The write_to_table calls of the crawler invocations, as <<p, i>>
Attempts == UNION {{<<p, i>> : i \in 1..Len(putLog[p])} : p \in Pollers}
AttemptsOf(url, outcomes) ==
    {pi \in Attempts : /\ putLog[pi[1]][pi[2]].url = url
                       /\ putLog[pi[1]][pi[2]].outcome \in outcomes}

\* C1: of the conditional puts of one URL that the table answered (all but
\* those it rejected with a store fault), exactly one ended as Inserted and
\* every other one as AlreadyExists, however the crawler invocations
\* interleave; and the table never holds more than one row for a URL.
C1_ExactlyOneInserted ==
    \A url \in Urls :
       /\ Cardinality(RowsOf(table, url)) <= 1
       /\ Cardinality(AttemptsOf(url, {"Inserted"})) <= 1
       /\ AttemptsOf(url, {"Inserted", "AlreadyExists"}) # {}
             => Cardinality(AttemptsOf(url, {"Inserted"})) = 1
       /\ HasRow(table, url) <=> AttemptsOf(url, {"Inserted"}) # {}

\* Both crawler invocations have put the same URL and the table answered both
C1_Witness ==
    \E url \in Urls :
       /\ Cardinality(AttemptsOf(url, {"Inserted"})) = 1
       /\ Cardinality(AttemptsOf(url, {"AlreadyExists"})) = 1

\* C7: a crawler invocation in which a conditional put failed with a store
\* error other than the failed condition does not complete as a success.
C7_StoreErrorPropagates ==
    \A p \in Pollers :
       ppc[p] = "done" => \A i \in 1..Len(putLog[p]) : putLog[p][i].outcome # "StoreError"

\* The notifier's history
Ev(op) == {i \in DOMAIN log : log[i].op = op}

RECURSIVE UrlsOf(_, _)
UrlsOf(lg, op) ==
    IF lg = <<>> THEN <<>>
    ELSE (IF Head(lg).op = op THEN <<Head(lg).url>> ELSE <<>>) \o UrlsOf(Tail(lg), op)

IsPrefix(a, b) == Len(a) <= Len(b) /\ SubSeq(b, 1, Len(a)) = a
NoException == Ev("exception") = {}

\* What enrichment produced for the item of a URL in this invocation
Enrichment(url) ==
    log[CHOOSE i \in Ev("summarize") : log[i].url = url].result
Enriched(url) == \E i \in Ev("summarize") : log[i].url = url /\ ~log[i].result.raised
EnrichedItem(url) ==
    ("summary" :> Enrichment(url).summary) @@ ("detail" :> Enrichment(url).detail)
    @@ item_list[CHOOSE k \in 1..Len(item_list) : item_list[k].rss_link = url]

\* C2: when the notifier invocation is over, a destination whose delivery
\* failed is followed by a delivery attempt for every later destination of
\* the same item.
C2_DeliveryFailureIsolated ==
    dpc = "done" =>
       \A i \in Ev("deliver") :
          log[i].outcome = "error" =>
             \A k \in (log[i].idx + 1)..Len(destinations) :
                \E j \in Ev("deliver") :
                   j > i /\ log[j].url = log[i].url /\ log[j].idx = k

\* C3: when the notifier invocation is over, every item that reached its
\* destination loop has had its audit write issued, also when a delivery failed.
C3_AuditAfterDestinationLoop ==
    dpc = "done" =>
       \A url \in Urls :
          Enriched(url) => \E j \in Ev("audit") : log[j].url = url

\* C4: once the audit write of an item whose row exists has been answered by
\* the table, the row of that URL carries the summary and the detail that
\* enrichment produced.
C4_AuditOverwritesRow ==
    \A i \in Ev("audit") :
       log[i].outcome # "StoreError" =>
          \E r \in table :
             /\ r.url = log[i].url
             /\ {"summary", "detail"} \subseteq DOMAIN r
             /\ r.summary = Enrichment(r.url).summary
             /\ r.detail = Enrichment(r.url).detail

\* C5: when the notifier invocation is over, every inserted item of the batch
\* has been taken up for enrichment, also when the summarizer or a delivery
\* failed for another item of the batch.
C5_ItemFailureIsolated ==
    (dpc = "done" /\ \A i \in Ev("fetch") : ~log[i].raised) =>
       \A k \in 1..Len(item_list) :
          \E i \in Ev("fetch") : log[i].url = item_list[k].rss_link

\* The summarizer's answer lacks a block, or the call was denied
LacksBlock(answer, tag) == answer.kind = "response" /\ findall(tag, answer.text) = <<>>
Malformed(answer) ==
    \/ LacksBlock(answer, "summary")
    \/ LacksBlock(answer, "thinking")
    \/ answer.kind = "AccessDeniedException"

\* C6: when the summarizer's answer lacks the summary block or the bullet
\* block, or the call is denied, enrichment fails for the item and no message
\* is formatted or delivered for it.
C6_NoDeliveryWithoutSummary ==
    \A i \in Ev("summarize") :
       Malformed(log[i].answer) =>
          /\ log[i].result.raised
          /\ \A j \in Ev("deliver") : log[j].url # log[i].url

\* Each malformed answer has ended an invocation
C6_Witness ==
    /\ dpc = "done"
    /\ \E i \in Ev("summarize") : LacksBlock(log[i].answer, "summary")
    /\ destinations # <<>>

\* C8: every row of the table still carries every field of the put that
\* inserted it, with the value that put wrote: neither a later put of the
\* same URL by a crawler nor the notifier's write changes or drops one.
C8_InsertedFieldsKept ==
    \A r \in table :
       \E pi \in AttemptsOf(r.url, {"Inserted"}) :
          LET won == putLog[pi[1]][pi[2]].item
          IN  \A f \in DOMAIN won : f \in DOMAIN r /\ r[f] = won[f]

\* A URL was inserted, put again by the other crawler invocation, and the
\* notifier's write for it was answered by the table
C8_Witness ==
    \E url \in Urls :
       /\ AttemptsOf(url, {"AlreadyExists"}) # {}
       /\ \E i \in Ev("audit") : log[i].url = url /\ log[i].outcome # "StoreError"
       /\ \E r \in table : r.url = url /\ "service_categories" \in DOMAIN r

\* format(variant, enrichedItem) of section 4.5 of the design
format(variant, enrichedItem) ==
    IF variant = "teams"
    THEN create_teams_message(
             [enrichedItem EXCEPT !.detail = Replace2(@, <<MARU, LF>>, <<MARU, CR>>)])
    ELSE IF variant = "slackfree" THEN create_free_slack_message(enrichedItem)
    ELSE enrichedItem

\* C9: every message a destination gets is format(variant, item as enrichment
\* produced it), whatever was formatted for earlier destinations, and the
\* audit write gets the summary and detail that enrichment produced.
C9_FormattingHasNoSideEffects ==
    /\ \A i \in Ev("deliver") :
          log[i].msg = format(log[i].type, EnrichedItem(log[i].url))
    /\ \A i \in Ev("audit") :
          /\ log[i].summary = Enrichment(log[i].url).summary
          /\ log[i].detail = Enrichment(log[i].url).detail

\* The URLs of the INSERT records of a batch, in batch order
RECURSIVE InsertLinks(_)
InsertLinks(recs) ==
    IF recs = <<>> THEN <<>>
    ELSE (IF Head(recs).eventName = "INSERT" THEN <<Head(recs).NewImage.url>> ELSE <<>>)
         \o InsertLinks(Tail(recs))

\* Each URL of a list, once per configured destination
RECURSIVE PerDestination(_)
PerDestination(links) ==
    IF links = <<>> THEN <<>>
    ELSE [k \in 1..Len(destinations) |-> Head(links)] \o PerDestination(Tail(links))

\* C10: the items of an invocation are the INSERT records of its batch in
\* batch order; enrichment, delivery and audit write happen for those only and
\* in that order, for all of them when the invocation ends without an
\* exception; a batch of update/remove records causes none of them.
C10_OnlyInsertsProcessed ==
    dpc # "idle" =>
       LET ins == InsertLinks(records)
       IN  /\ [k \in 1..Len(item_list) |-> item_list[k].rss_link] = ins
           /\ IsPrefix(UrlsOf(log, "fetch"), ins)
           /\ IsPrefix(UrlsOf(log, "summarize"), ins)
           /\ IsPrefix(UrlsOf(log, "deliver"), PerDestination(ins))
           /\ IsPrefix(UrlsOf(log, "audit"), ins)
           /\ ins = <<>> => log = <<>>
           /\ (dpc = "done" /\ NoException) =>
                 /\ UrlsOf(log, "fetch") = ins
                 /\ UrlsOf(log, "summarize") = ins
                 /\ UrlsOf(log, "deliver") = PerDestination(ins)
                 /\ UrlsOf(log, "audit") = ins

\* A batch of an INSERT and an update/remove record was processed to its end
C10_Witness ==
    /\ dpc = "done"
    /\ NoException
    /\ destinations # <<>>
    /\ InsertLinks(records) # <<>>
    /\ Len(InsertLinks(records)) < Len(records)
    /\ Ev("audit") # {}

\* The entries of the last parsed feed that add_blog has gone through
Processed(p) ==
    IF ppc[p] = "entries" THEN 1..(pentry[p] - 1)
    ELSE IF pfeed[p] > Len(Notifier.rssUrl) THEN 1..Len(rss_result[p].entries)
    ELSE {}

\* Hours between the invocation's now and the entry's publication timestamp
ElapsedHours(p, entry) == InvocationNow[p] - entry.published.t
PutFor(p, entry) == {i \in 1..Len(putLog[p]) : putLog[p][i].url = entry.link}

\* C11: an entry that add_blog has gone through reached the conditional put
\* exactly when fewer than maxOldDays + 1 whole days passed between its
\* publication timestamp and now: an entry of exactly maxOldDays days is put,
\* one of maxOldDays + 1 days is dropped before the put.
C11_RecencyBoundary ==
    \A p \in Pollers :
       \A k \in Processed(p) :
          LET entry == rss_result[p].entries[k]
          IN  PutFor(p, entry) # {}
                 <=> ElapsedHours(p, entry) < (handler_max_old_days + 1) * HoursPerDay

\* An invocation has gone through an entry of exactly maxOldDays days, which
\* was inserted, and an entry of maxOldDays + 1 days, which was never put
C11_Witness ==
    \E p \in Pollers :
       /\ ppc[p] = "done"
       /\ \E k, l \in Processed(p) :
             LET old == rss_result[p].entries[k]
                 older == rss_result[p].entries[l]
             IN  /\ ElapsedHours(p, old) \div HoursPerDay = handler_max_old_days
                 /\ \E i \in PutFor(p, old) : putLog[p][i].outcome = "Inserted"
                 /\ ElapsedHours(p, older) \div HoursPerDay = handler_max_old_days + 1
                 /\ PutFor(p, older) = {}

\* The text after the prefix, for each element that starts with the prefix
RECURSIVE Suffixes(_, _)
Suffixes(elements, prefix) ==
    IF elements = <<>> THEN <<>>
    ELSE LET element == Strip(Head(elements))
         IN  (IF StartsWith(element, prefix)
              THEN <<SubSeq(element, Len(prefix) + 1, Len(element))>>
              ELSE <<>>)
             \o Suffixes(Tail(elements), prefix)

\* C12: the service tags of a category string are the suffixes of its
\* comma-separated elements that start with "general:products/", the
\* architecture tags the suffixes of those that start with
\* "marketing:marchitecture/", both in input order; every other element adds
\* to neither list.
C12_CategoryPartition ==
    (fin.fn = "add_blog" /\ fout # <<>>) =>
       LET elements == Split(fin.arg.category, ",")
       IN  /\ fout[1].service_categories = Suffixes(elements, GeneralProducts)
           /\ fout[1].marketing_architectures
                 = Suffixes(elements, MarketingMarchitecture)

\* The non-empty lines, each without one leading "- " marker if it has one
RECURSIVE Bullets(_)
Bullets(lines) ==
    IF lines = <<>> THEN <<>>
    ELSE LET line == Head(lines)
         IN  (IF line = <<>> THEN <<>>
              ELSE IF StartsWith(line, <<"-", " ">>) THEN <<SubSeq(line, 3, Len(line))>>
              ELSE <<line>>)
             \o Bullets(Tail(lines))

\* The bulleted list of a chat-blocks payload
RichText(payload) ==
    payload.blocks[CHOOSE k \in DOMAIN payload.blocks :
                      payload.blocks[k].type = "rich_text"].elements

\* C13: the entries of the bulleted list of the chat-blocks payload are the
\* lines of the detail text, split on newlines, without the empty lines and
\* each without one leading "- " marker.
C13_BulletedList ==
    (fin.fn = "create_free_slack_message" /\ fout # <<>>) =>
       RichText(fout[1]) = Bullets(Split(fin.arg.detail, LF))

\* The INSERT record of a URL is still in the stream, to be dispatched (again)
AwaitsDispatch(url) ==
    \E n \in 1..Len(stream) :
       stream[n].eventName = "INSERT" /\ stream[n].NewImage.url = url

\* A delivery of the item of a URL to the j-th destination went through
Delivered(url, j) ==
    \E i \in Ev("deliver") :
       log[i].url = url /\ log[i].idx = j /\ log[i].outcome = "ok"

\* C14: when a notifier invocation in which fetch and summarizer answered is
\* over, every inserted item of its batch has been delivered to every
\* configured destination, or its INSERT record is kept for another dispatch
\* (a delivery that failed once is made again).
C14_AtLeastOnceDelivery ==
    (/\ dpc = "done"
     /\ \A i \in Ev("fetch") : ~log[i].raised
     /\ \A i \in Ev("summarize") : ~log[i].result.raised) =>
       \A k \in 1..Len(item_list) :
          \A j \in 1..Len(destinations) :
             Delivered(item_list[k].rss_link, j) \/ AwaitsDispatch(item_list[k].rss_link)

\* The step is a conditional put of crawler invocation p for a URL that
\* already has a row
PutsSeenUrl(p) ==
    /\ Len(putLog'[p]) = Len(putLog[p]) + 1
    /\ HasRow(table, putLog'[p][Len(putLog'[p])].url)

\* C15: polling again is idempotent per URL: a conditional put of a URL whose
\* row a poll has already inserted leaves the table exactly as it was and
\* emits no change record.
C15_PollIdempotent ==
    [][\A p \in Pollers : PutsSeenUrl(p) => (table' = table /\ stream' = stream)]_vars

\* Two polls over the same feed are over: one inserted every eligible entry,
\* the other found every one of them present, and the table holds the rows
\* of the first
C15_Witness ==
    \E p, q \in Pollers :
       /\ ppc[p] = "done" /\ ppc[q] = "done"
       /\ Len(putLog[p]) = 2 /\ Len(putLog[q]) = 2
       /\ \A i \in 1..2 : /\ putLog[p][i].outcome = "Inserted"
                           /\ putLog[q][i].outcome = "AlreadyExists"
       /\ table = {putLog[p][i].item : i \in 1..2}

\* The delivery attempts made for the same item before attempt i
EarlierAttempts(i) == {j \in Ev("deliver") : j < i /\ log[j].url = log[i].url}

\* C16: the delivery attempts of one item are made one after the other in the
\* order of the configured destination list: the k-th attempt goes to the
\* k-th destination, and it starts only when the attempts for all earlier
\* destinations have finished.
C16_SequentialInOrder ==
    /\ \A i \in Ev("deliver") :
          /\ log[i].idx = Cardinality(EarlierAttempts(i)) + 1
          /\ log[i].type = destinations[log[i].idx].type
          /\ \A j \in EarlierAttempts(i) : log[j].outcome = "ok"
    /\ dpc = "deliver" =>
          \A k \in 1..(dj - 1) : Delivered(item.rss_link, k)

\* An item went to three destinations, one after the other
C16_Witness ==
    /\ dpc = "done"
    /\ Len(destinations) = 3
    /\ \E i, j, k \in Ev("deliver") :
          /\ i < j /\ j < k
          /\ log[i].url = log[j].url /\ log[j].url = log[k].url
          /\ log[k].idx = 3

\* C17: when the notifier invocation is over, every delivery attempt, whether
\* it went through or failed, has been followed by the pacing step of its
\* destination.
C17_PacingAfterEveryAttempt ==
    dpc = "done" =>
       \A i \in Ev("deliver") :
          \E j \in Ev("sleep") :
             j > i /\ log[j].url = log[i].url /\ log[j].idx = log[i].idx

\* C18: a row, once inserted, stays: no step (a failed fetch, summarizer call,
\* delivery or audit write among them) removes the row of a URL, and a later
\* conditional put of that URL is never answered Inserted: the table answers
\* AlreadyExists, or rejects the put with a store fault.
C18_InsertedStaysSeen ==
    [][/\ \A r \in table : HasRow(table', r.url)
       /\ \A p \in Pollers :
             PutsSeenUrl(p) =>
                putLog'[p][Len(putLog'[p])].outcome \in {"AlreadyExists", "StoreError"}]_vars

\* The notifier failed on the item of a URL, the audit write of another was
\* rejected, both rows are in the table and a later put found the first
C18_Witness ==
    \E url \in Urls :
       /\ \E i \in Ev("exception") : log[i].url = url
       /\ \E i \in Ev("audit") : log[i].outcome = "StoreError" /\ HasRow(table, log[i].url)
       /\ HasRow(table, url)
       /\ AttemptsOf(url, {"AlreadyExists"}) # {}

\* The change records the notifier holds or still has to get
Pending == stream \o records

\* C19: the audit write of an item, answered or rejected, causes no further
\* enrichment or delivery of the item: every INSERT record that is or will be
\* dispatched carries a row a crawler inserted, nothing follows the audit
\* write of a URL in its invocation, and no INSERT record of that URL waits
\* for another dispatch.
C19_AuditNotRedispatched ==
    /\ \A n \in 1..Len(Pending) :
          Pending[n].eventName = "INSERT" =>
             \E pi \in AttemptsOf(Pending[n].NewImage.url, {"Inserted"}) :
                putLog[pi[1]][pi[2]].item = Pending[n].NewImage
    /\ \A i \in Ev("audit") :
          /\ \A j \in DOMAIN log : j > i => log[j].url # log[i].url
          /\ ~AwaitsDispatch(log[i].url)

\* An invocation is over in which the audit write of one item was answered
\* (the row exists) and that of another was rejected by the table
C19_Witness ==
    /\ dpc = "done"
    /\ \E i \in Ev("audit") : log[i].outcome = "Duplicate"
    /\ \E i \in Ev("audit") : log[i].outcome = "StoreError"

\* C21: the content fetch fails soft: no fetch raises, whatever goes wrong
\* with the item's URL, and the summarizer is the next call made for the item.
C21_FetchFailsSoft ==
    \A i \in Ev("fetch") :
       /\ ~log[i].raised
       /\ i < Len(log) => (log[i + 1].op = "summarize" /\ log[i + 1].url = log[i].url)

\* The service tag list the crawler recorded in the row of a URL
RecordedServiceTags(url) ==
    LET r == CHOOSE r \in table : r.url = url
    IN  item_service_categories(r)

\* The payload has the badge section: a fourth section block in the
\* chat-blocks payload, a fourth collapsed item in the chat-card payload
HasBadgeSection(msg) ==
    IF "blocks" \in DOMAIN msg
    THEN Cardinality({k \in DOMAIN msg.blocks : msg.blocks[k].type = "section"}) = 4
    ELSE Len(msg.collapsedItems) = 4

\* C22: the chat-blocks and chat-card payloads delivered for an item carry
\* the service-tag badge section exactly when the service tag list recorded
\* for the item by the crawler is not empty.
C22_BadgeSection ==
    \A i \in Ev("deliver") :
       log[i].type \in {"teams", "slackfree"} =>
          (HasBadgeSection(log[i].msg) <=> RecordedServiceTags(log[i].url) # <<>>)

\* Enrichment failed for the item of a URL: the fetch raised, or the
\* summarizer did not answer with both blocks
EnrichmentFailed(url) ==
    \/ \E i \in Ev("fetch") : log[i].url = url /\ log[i].raised
    \/ \E i \in Ev("summarize") :
          /\ log[i].url = url
          /\ (Malformed(log[i].answer) \/ log[i].answer.kind # "response")

\* C23: after an enrichment failure for an item its row is still in the
\* table and has no summary and no detail field, and no audit write is issued
\* for the item.
C23_FailedItemKeepsBareRow ==
    \A url \in Urls :
       EnrichmentFailed(url) =>
          /\ \E r \in table :
                r.url = url /\ "summary" \notin DOMAIN r /\ "detail" \notin DOMAIN r
          /\ \A i \in Ev("audit") : log[i].url # url

\* An invocation ended on a summarizer failure for an item whose row exists
C23_Witness ==
    /\ dpc = "done"
    /\ \E i \in Ev("summarize") :
          /\ log[i].result.raised
          /\ EnrichmentFailed(log[i].url)
          /\ HasRow(table, log[i].url)

\* The place of a call in the processing of one item
Rank(op) ==
    CASE op = "fetch" -> 1
      [] op = "summarize" -> 2
      [] op \in {"deliver", "sleep"} -> 3
      [] op = "audit" -> 4
      [] OTHER -> 0

\* The calls made for the items of the batch
ItemCalls == {i \in DOMAIN log : Rank(log[i].op) > 0}

\* C24: every enrichment, delivery and audit write for a URL follows the
\* committed insert of that URL and its INSERT record, and the calls for one
\* item are made in the order fetch and summarizer, deliveries in the order
\* of the destinations, audit write.
C24_OrderPerItem ==
    /\ \A i \in ItemCalls :
          /\ AttemptsOf(log[i].url, {"Inserted"}) # {}
          /\ HasRow(table, log[i].url)
          /\ \E n \in 1..Len(records) :
                records[n].eventName = "INSERT" /\ records[n].NewImage.url = log[i].url
    /\ \A i, j \in ItemCalls :
          (log[i].url = log[j].url /\ Rank(log[i].op) < Rank(log[j].op)) => i < j
    /\ \A i, j \in Ev("deliver") :
          (log[i].url = log[j].url /\ log[i].idx < log[j].idx) => i < j

\* An inserted item went through fetch, summarizer, two deliveries and the
\* audit write
C24_Witness ==
    \E f \in Ev("fetch"), s \in Ev("summarize"), a \in Ev("audit") :
       \E d, e \in Ev("deliver") :
          /\ f < s /\ s < d /\ d < e /\ e < a
          /\ {log[s].url, log[d].url, log[e].url, log[a].url} = {log[f].url}
          /\ HasRow(table, log[f].url)

\* What a log handler returned for the event
ResultOf(name) == fout[CHOOSE n \in DOMAIN fout : fout[n].handler = name].result

\* The log events of the invocation's payload, if it decodes to one
LogEventsOf(inv) ==
    IF /\ inv.env
       /\ "awslogs" \in DOMAIN inv.event
       /\ inv.event.awslogs.data.valid
       /\ "logEvents" \in DOMAIN inv.event.awslogs.data.payload
    THEN inv.event.awslogs.data.payload.logEvents
    ELSE <<>>

\* The first log event that is not an object (one past the end if all are)
RECURSIVE Stop(_, _)
Stop(events, k) ==
    IF k > Len(events) \/ events[k].json # "object" THEN k ELSE Stop(events, k + 1)

\* The log events up to there whose message contains ERROR or FATAL
Forwardable(events) ==
    {k \in 1..(Stop(events, 1) - 1) :
        \/ Contains(event_message(events[k]), "ERROR")
        \/ Contains(event_message(events[k]), "FATAL")}

\* The status the event is answered with: 500 on an exception, 400 without
\* log data, 200 otherwise
ExpectedStatus(inv) ==
    IF ~inv.env THEN 500
    ELSE IF "awslogs" \notin DOMAIN inv.event THEN 400
    ELSE IF ~inv.event.awslogs.data.valid THEN 500
    ELSE IF Stop(LogEventsOf(inv), 1) <= Len(LogEventsOf(inv)) THEN 500
    ELSE 200

\* C25: for the same event the two log handlers return the same status code
\* (500 on an exception, 400 without log data, 200 otherwise), publish for
\* the same log events in the same order (those whose message contains ERROR
\* or FATAL), and give each published event the same level (ERROR if the
\* message contains ERROR, else FATAL) and the same severity (HIGH for ERROR,
\* CRITICAL for FATAL).
C25_LogHandlersAgree ==
    (Returned("logs-to-sns") /\ Returned("logs-to-sns-chatbot")) =>
       LET a == ResultOf("logs-to-sns")
           b == ResultOf("logs-to-sns-chatbot")
           pa == a.calls.published
           pb == b.calls.published
           events == LogEventsOf(fin.arg)
       IN  /\ a.statusCode = b.statusCode
           /\ a.statusCode = ExpectedStatus(fin.arg)
           /\ Len(pa) = Len(pb)
           /\ {pa[n].idx : n \in DOMAIN pa} = Forwardable(events)
           /\ \A n \in DOMAIN pa :
                 LET level == pa[n].MessageAttributes.level
                     severity == pa[n].MessageAttributes.severity
                     message == event_message(events[pa[n].idx])
                 IN  /\ pa[n].idx = pb[n].idx
                     /\ \A m \in DOMAIN pa : m < n => pa[m].idx < pa[n].idx
                     /\ level = pb[n].Message.content.keywords[1]
                     /\ severity = pb[n].Message.metadata.additionalContext.severity
                     /\ level = IF Contains(message, "ERROR") THEN "ERROR" ELSE "FATAL"
                     /\ severity = IF level = "ERROR" THEN "HIGH" ELSE "CRITICAL"

\* Both handlers have answered an event with two log events to publish, one
\* with FATAL only and one with both FATAL and ERROR in its message
C25_Witness ==
    /\ Returned("logs-to-sns") /\ Returned("logs-to-sns-chatbot")
    /\ ResultOf("logs-to-sns").statusCode = 200
    /\ LET pb == ResultOf("logs-to-sns-chatbot").calls.published
       IN  /\ Len(pb) = 2
           /\ \E n, m \in DOMAIN pb :
                 /\ pb[n].Message.content.description = <<"FATAL">>
                 /\ pb[m].Message.content.description = <<"FATAL", "ERROR">>

\* The answers the log handlers have returned
Answers == {fout[n] : n \in DOMAIN fout}

\* C29: in each log handler a publish that fails is logged and changes
\* nothing else: every later log event of the payload whose message contains
\* ERROR or FATAL is still published, and the handler returns the status it
\* returns without the failure (200 when every log event is an object).
C29_PublishFailureIsolated ==
    \A answer \in Answers :
       LET calls == answer.result.calls
           events == LogEventsOf(fin.arg)
       IN  \A n \in DOMAIN calls.published :
              calls.published[n].outcome = "error" =>
                 /\ \E e \in DOMAIN calls.errors : calls.errors[e] = calls.published[n].idx
                 /\ \A k \in Forwardable(events) :
                       k > calls.published[n].idx =>
                          \E m \in DOMAIN calls.published :
                             m > n /\ calls.published[m].idx = k
                 /\ answer.result.statusCode = ExpectedStatus(fin.arg)
                 /\ Stop(events, 1) > Len(events) => answer.result.statusCode = 200

\* Each handler has had the publish of the first of two log events fail,
\* has published the second and has returned 200
C29_Witness ==
    \A name \in {"logs-to-sns", "logs-to-sns-chatbot"} :
       /\ Returned(name)
       /\ LET r == ResultOf(name)
          IN  /\ Len(r.calls.published) = 2
              /\ r.calls.published[1].outcome = "error"
              /\ r.calls.published[2].outcome = "ok"
              /\ r.statusCode = 200

\* C26: an exception raised while the batch is processed is caught by the
\* handler: it is the last thing that happens in the invocation, which then
\* ends normally, and none of the work that was left is done.
C26_HandlerCatches ==
    \A i \in Ev("exception") : i = Len(log) /\ dpc = "done"

\* An invocation ended on an exception for the first of two items
C26_Witness ==
    /\ dpc = "done"
    /\ Len(item_list) = 2
    /\ \E i \in Ev("exception") : log[i].url = item_list[1].rss_link
    /\ \A i \in DOMAIN log : log[i].url # item_list[2].rss_link

\* The feed's own updated timestamp is more than maxOldDays whole days old
StaleFeed(p, res) ==
    /\ "updated" \in DOMAIN res.feed
    /\ InvocationNow[p] - res.feed.updated.t >= (handler_max_old_days + 1) * HoursPerDay

\* The entry passes the entry-level recency filter
RecentEntry(p, entry) == ElapsedHours(p, entry) < (handler_max_old_days + 1) * HoursPerDay

\* C27: no entry of a feed whose own updated timestamp is older than
\* maxOldDays is put, also when the entry itself is recent, and a poll that
\* has skipped such a feed goes on with the feeds after it.
C27_StaleFeedSkipped ==
    \A p \in Pollers :
       \A f \in DOMAIN Notifier.rssUrl :
          \A res \in FeedResults(Notifier.rssUrl[f]) :
             StaleFeed(p, res) =>
                /\ \A k \in DOMAIN res.entries : PutFor(p, res.entries[k]) = {}
                /\ ppc[p] = "done" =>
                      \A g \in (f + 1)..Len(Notifier.rssUrl) :
                         \A later \in FeedResults(Notifier.rssUrl[g]) :
                            \A k \in DOMAIN later.entries :
                               (/\ "updated" \in DOMAIN later.feed
                                /\ ~StaleFeed(p, later)
                                /\ RecentEntry(p, later.entries[k]))
                                  => PutFor(p, later.entries[k]) # {}

\* A poll is over that skipped a stale feed with a recent entry and inserted
\* an entry of the feed after it
C27_Witness ==
    \E p \in Pollers :
       /\ ppc[p] = "done"
       /\ \E res \in FeedResults(Notifier.rssUrl[1]) :
             /\ StaleFeed(p, res)
             /\ \E k \in DOMAIN res.entries :
                   RecentEntry(p, res.entries[k]) /\ ~HasRow(table, res.entries[k].link)
       /\ \E i \in DOMAIN putLog[p] : putLog[p][i].outcome = "Inserted"

\* The calls of one kind made for the item of a URL
CallsFor(op, url) == {i \in Ev(op) : log[i].url = url}

\* C28: content fetch and summarizer are called at most once per item and
\* before its destination loop, however many destinations are configured;
\* an item that got its audit write, and every item of an invocation that
\* ended without an exception, was fetched and summarized exactly once, also
\* with no destination at all.
C28_EnrichedOncePerItem ==
    /\ \A url \in Urls :
          /\ Cardinality(CallsFor("fetch", url)) <= 1
          /\ Cardinality(CallsFor("summarize", url)) <= 1
    /\ \A d \in Ev("deliver") \cup Ev("audit") :
          /\ \E f \in CallsFor("fetch", log[d].url) : f < d
          /\ \E s \in CallsFor("summarize", log[d].url) : s < d
    /\ (dpc = "done" /\ NoException) =>
          \A k \in 1..Len(item_list) :
             /\ Cardinality(CallsFor("fetch", item_list[k].rss_link)) = 1
             /\ Cardinality(CallsFor("summarize", item_list[k].rss_link)) = 1
             /\ CallsFor("audit", item_list[k].rss_link) # {}

\* With no destination configured an item was summarized and its audit write
\* issued
C28_Witness ==
    /\ destinations = <<>>
    /\ dpc = "done"
    /\ \E s \in Ev("summarize"), a \in Ev("audit") : s < a /\ log[s].url = log[a].url

====
